---- MODULE Spec2Model ----
(***************************************************************************)
(* Model of checkoverlap(deadlock).py: the pytest test                     *)
(* test_sm120_tmem_indices_unique and its helpers _find_nvcc,              *)
(* _compile_harness and _run_harness.  The compiler and the probe binary   *)
(* are external programs; the environment record fixes what they return.   *)
(* Texts are sequences of tokens; a substring is a contiguous sub-sequence.*)
(***************************************************************************)
EXTENDS Integers, Sequences, FiniteSets, TLC

\* ---- bounds ----
MaxOutLen == 3      \* longest captured probe output, in tokens
MaxRuns == 2        \* evaluations performed in succession

\* ---- texts ----
\* line 94: the literal "Index collisions detected", split in two tokens
Marker == <<"Index collisions", " detected">>
Tokens == {"Index collisions", "index collisions", " detected", "x"}
Outputs == UNION {[1..n -> Tokens] : n \in 0..MaxOutLen}

\* return codes of a child process: killed by a signal, success, failure
ExitCodes == {-9, 0, 1}

\* str(int) as used by the f-strings of lines 55 and 71
IntToStr(n) == CASE n = 0 -> "0" [] n = 1 -> "1" [] n = -9 -> "-9" [] OTHER -> "?"

\* Python's `sub in s` on text
StrContains(sub, s) ==
    \E i \in 1..(Len(s) - Len(sub) + 1) : SubSeq(s, i, i + Len(sub) - 1) = sub

\* ---- values ----
None == [kind |-> "None"]
Str(s) == [kind |-> "str", s |-> s]
\* pathlib.Path(text)
Path(t) == [kind |-> "Path", s |-> t.s]
ProcessResult(rc, out) == [kind |-> "Result", returncode |-> rc, stdout |-> out]

NvccPath == "/usr/local/cuda/bin/nvcc"
NvccExePath == "/mnt/c/cuda/bin/nvcc.exe"

\* ---- environments ----
Disks == {[dir |-> FALSE, bin |-> "none"],
          [dir |-> TRUE, bin |-> "none"],
          [dir |-> TRUE, bin |-> "stale"]}

CompileResults == {ProcessResult(0, <<>>),
                   ProcessResult(1, <<"error: ">>),
                   ProcessResult(-9, <<>>)}

ProbeResults == {ProcessResult(rc, out) : rc \in ExitCodes, out \in Outputs}

\* what a binary left by an earlier build does when it is executed
StaleResults == {ProcessResult(0, Marker), ProcessResult(0, <<"x">>)}

Environments ==
    [which : {[n \in {"nvcc", "nvcc.exe"} |-> IF n \in S
                   THEN Str(IF n = "nvcc" THEN NvccPath ELSE NvccExePath)
                   ELSE None] : S \in SUBSET {"nvcc", "nvcc.exe"}},
     srcExists : BOOLEAN,
     compile : CompileResults,
     probe : ProbeResults,
     stale : StaleResults,
     disk0 : Disks]

VARIABLES env, disk, diskAtStart, pc, nvcc, compileResult, runResult,
          output, verdict, steps, history

vars == <<env, disk, diskAtStart, pc, nvcc, compileResult, runResult,
          output, verdict, steps, history>>

\* ---- helpers of the test ----

\* shutil.which(name): the resolved path as text, or None
which(name) == env.which[name]

\* mutant: the alternate name is tried first
find_nvcc_alternate_first ==
    IF which("nvcc.exe") # None THEN Path(which("nvcc.exe"))
    ELSE IF which("nvcc") # None THEN Path(which("nvcc"))
    ELSE None

\* mutant: a default compiler name is returned when nothing resolves
find_nvcc_default_name ==
    IF which("nvcc") # None THEN Path(which("nvcc"))
    ELSE IF which("nvcc.exe") # None THEN Path(which("nvcc.exe"))
    ELSE Path(Str("nvcc"))

\* _find_nvcc, lines 16-22
find_nvcc ==
    IF which("nvcc") # None THEN Path(which("nvcc"))
    ELSE IF which("nvcc.exe") # None THEN Path(which("nvcc.exe"))
    ELSE None

\* mutant: the source check is left out
SourceMissingNever == FALSE

\* line 88: not HARNESS_SRC.exists()
SourceMissing == ~env.srcExists

\* mutant: mkdir without exist_ok
MkdirRaisesWithoutExistOk(d) == d.dir

\* line 27: output_dir.mkdir(parents=True, exist_ok=True) raises nothing when
\* the directory is already there
MkdirRaises(d) == FALSE

\* the path handed to subprocess.run names an executable of the environment
Executable(p) ==
    /\ p.kind = "Path"
    /\ \E n \in {"nvcc", "nvcc.exe"} : which(n) # None /\ which(n).s = p.s

\* mutant: subprocess.run with check=True
SubprocessRaisesChecked(res) == res.returncode # 0

\* lines 51 and 66: check=False, a non-zero return code raises nothing
SubprocessRaises(res) == FALSE

\* the compiler as a child process (lines 45-52): what it returns
NvccResult == IF env.srcExists THEN env.compile
              ELSE ProcessResult(1, <<"error: ">>)

\* the compiler as a child process: what it leaves on disk
NvccDisk(d) == IF NvccResult.returncode = 0 THEN [d EXCEPT !.bin = "fresh"] ELSE d

\* mutant: only positive return codes count as failure
CompileFailedPositiveOnly(res) == res.returncode > 0

\* line 53: result.returncode != 0
CompileFailed(res) == res.returncode # 0

\* mutant: only positive return codes count as failure
RunFailedPositiveOnly(res) == res.returncode > 0

\* line 68: result.returncode != 0
RunFailed(res) == res.returncode # 0

\* the binary at HARNESS_BIN as a child process (lines 60-67)
ProbeResult(d) == IF d.bin = "stale" THEN env.stale ELSE env.probe

SkipNoNvcc == <<"nvcc not found in PATH; skipping TMEM layout probe.">>
SkipNoSource == <<"TMEM probe source missing; nothing to test.">>

\* lines 54-56
CompileSkipMessage(res) ==
    <<"Failed to compile TMEM probe with nvcc (", IntToStr(res.returncode), ").\n">>
        \o res.stdout

\* lines 69-72
RunSkipMessage(res) ==
    <<"TMEM probe executable failed to run ", "(exit ", IntToStr(res.returncode), ").\n">>
        \o res.stdout

FailHeader == <<"TMEM probe detected overlapping indices in SM120 layout.\n",
                "Harness output:\n">>

\* mutant: the output is left out of the failure message
FailMessageHeaderOnly(out) == FailHeader

\* lines 95-99
FailMessage(out) == FailHeader \o out

Skipped(msg) == [kind |-> "Skipped", msg |-> msg]
Failed(msg) == [kind |-> "Failed", msg |-> msg]
Passed == [kind |-> "Passed", msg |-> <<>>]
\* an exception other than pytest's skip and fail leaves the test
Error(name) == [kind |-> "Error", msg |-> <<name>>]

\* mutant: the marker is only looked for at the start of the output
ClassifyPrefixOnly(out) ==
    IF Len(out) >= Len(Marker) /\ SubSeq(out, 1, Len(Marker)) = Marker
    THEN Failed(FailMessage(out)) ELSE Passed

\* lines 94-99
Classify(out) ==
    IF StrContains(Marker, out) THEN Failed(FailMessage(out)) ELSE Passed

\* mutant: the compile step is entered again after the probe has run
StepAfterCompilesAgain(p) ==
    CASE p = "find" -> "source" [] p = "source" -> "compile"
      [] p = "compile" -> "run" [] p = "run" -> "compile"

\* the statement order of the test body, lines 84, 88, 91, 92, 94
StepAfter(p) ==
    CASE p = "find" -> "source" [] p = "source" -> "compile"
      [] p = "compile" -> "run" [] p = "run" -> "classify"

\* ---- state machine ----
Init ==
    /\ env \in Environments
    /\ disk = env.disk0
    /\ diskAtStart = env.disk0
    /\ pc = "find"
    /\ nvcc = None
    /\ compileResult = None
    /\ runResult = None
    /\ output = None
    /\ verdict = None
    /\ steps = <<>>
    /\ history = <<>>

\* the test ends with verdict v
Resolve(v) ==
    /\ verdict' = v
    /\ pc' = "done"
    /\ history' = Append(history, v.kind)

\* lines 84-86
FindNvcc ==
    /\ pc = "find"
    /\ steps' = Append(steps, "discovery")
    /\ nvcc' = find_nvcc
    /\ IF find_nvcc = None
       THEN Resolve(Skipped(SkipNoNvcc))
       ELSE pc' = StepAfter("find") /\ UNCHANGED <<verdict, history>>
    /\ UNCHANGED <<env, disk, diskAtStart, compileResult, runResult, output>>

\* lines 88-89
CheckSource ==
    /\ pc = "source"
    /\ IF SourceMissing
       THEN Resolve(Skipped(SkipNoSource))
       ELSE pc' = StepAfter("source") /\ UNCHANGED <<verdict, history>>
    /\ UNCHANGED <<env, disk, diskAtStart, nvcc, compileResult, runResult,
                   output, steps>>

\* line 91, _compile_harness, lines 25-56
CompileHarness ==
    /\ pc = "compile"
    /\ IF MkdirRaises(disk)
       THEN /\ Resolve(Error("FileExistsError"))
            /\ UNCHANGED <<disk, compileResult, steps>>
       ELSE IF ~Executable(nvcc)
       THEN /\ Resolve(Error("FileNotFoundError"))
            /\ disk' = [disk EXCEPT !.dir = TRUE]
            /\ steps' = Append(steps, "compile")
            /\ UNCHANGED compileResult
       ELSE /\ disk' = NvccDisk([disk EXCEPT !.dir = TRUE])
            /\ steps' = Append(steps, "compile")
            /\ compileResult' = NvccResult
            /\ IF SubprocessRaises(NvccResult)
               THEN Resolve(Error("CalledProcessError"))
               ELSE IF CompileFailed(NvccResult)
               THEN Resolve(Skipped(CompileSkipMessage(NvccResult)))
               ELSE pc' = StepAfter("compile") /\ UNCHANGED <<verdict, history>>
    /\ UNCHANGED <<env, diskAtStart, nvcc, runResult, output>>

\* line 92, _run_harness, lines 59-73
RunHarness ==
    /\ pc = "run"
    /\ steps' = Append(steps, "execute")
    /\ IF disk.bin = "none"
       THEN /\ Resolve(Error("FileNotFoundError"))
            /\ UNCHANGED <<runResult, output>>
       ELSE /\ runResult' = ProbeResult(disk)
            /\ IF SubprocessRaises(ProbeResult(disk))
               THEN /\ Resolve(Error("CalledProcessError"))
                    /\ UNCHANGED output
               ELSE IF RunFailed(ProbeResult(disk))
               THEN /\ Resolve(Skipped(RunSkipMessage(ProbeResult(disk))))
                    /\ UNCHANGED output
               ELSE /\ output' = ProbeResult(disk).stdout
                    /\ pc' = StepAfter("run")
                    /\ UNCHANGED <<verdict, history>>
    /\ UNCHANGED <<env, disk, diskAtStart, nvcc, compileResult>>

\* lines 94-99
ClassifyOutput ==
    /\ pc = "classify"
    /\ steps' = Append(steps, "classify")
    /\ Resolve(Classify(output))
    /\ UNCHANGED <<env, disk, diskAtStart, nvcc, compileResult, runResult, output>>

\* the test is run again in the environment the previous run left
NextEvaluate ==
    /\ pc = "done"
    /\ Len(history) < MaxRuns
    /\ pc' = "find"
    /\ diskAtStart' = disk
    /\ nvcc' = None
    /\ compileResult' = None
    /\ runResult' = None
    /\ output' = None
    /\ verdict' = None
    /\ steps' = <<>>
    /\ UNCHANGED <<env, disk, history>>

Next ==
    \/ FindNvcc
    \/ CheckSource
    \/ CompileHarness
    \/ RunHarness
    \/ ClassifyOutput
    \/ NextEvaluate

Spec == Init /\ [][Next]_vars

\* ---- shorthands of the claims ----
ToolchainFound == which("nvcc") # None \/ which("nvcc.exe") # None
Done == pc = "done"
Pipeline == <<"discovery", "compile", "execute", "classify">>
IsPrefix(s, t) == Len(s) <= Len(t) /\ SubSeq(t, 1, Len(s)) = s
Count(s, x) == Cardinality({i \in 1..Len(s) : s[i] = x})
SuccessfulRun ==
    /\ Done
    /\ ToolchainFound /\ env.srcExists
    /\ compileResult # None /\ compileResult.returncode = 0
    /\ runResult # None /\ runResult.returncode = 0

\* ---- claims ----

\* C1 as stated: after a successful run whose output contains the marker the
\* verdict is Failed and the failure's payload equals the captured output
C1_PayloadEqualsOutput ==
    (SuccessfulRun /\ StrContains(Marker, runResult.stdout))
        => (verdict.kind = "Failed" /\ verdict.msg = runResult.stdout)

\* C1 amended: after a successful run whose output contains the marker the
\* verdict is Failed and its message is the fixed two-line header followed by
\* the full captured output of the run step
C1_FailedCarriesHeaderAndOutput ==
    (SuccessfulRun /\ StrContains(Marker, runResult.stdout))
        => (verdict.kind = "Failed" /\ verdict.msg = FailHeader \o runResult.stdout)

C1_Witness ==
    /\ SuccessfulRun
    /\ verdict.kind = "Failed"
    /\ Len(runResult.stdout) > Len(Marker)
    /\ runResult.stdout[1] = "x"

C3_RunOnlyAfterCompileSuccess ==
    /\ (compileResult # None /\ compileResult.returncode # 0)
          => (Done /\ verdict.kind = "Skipped" /\ Count(steps, "execute") = 0
                /\ runResult = None)
    /\ Count(steps, "execute") > 0
          => (compileResult # None /\ compileResult.returncode = 0
                /\ disk.bin = "fresh")

C3_Witness ==
    /\ Done
    /\ compileResult # None
    /\ compileResult.returncode # 0
    /\ disk.bin = "stale"
    /\ verdict.kind = "Skipped"

\* C4: when neither compiler name resolves the verdict is Skipped, whatever the
\* source file, an earlier binary and its output are
C4_NoToolchainSkips ==
    ~ToolchainFound
        => \/ pc = "find" /\ verdict = None
           \/ Done /\ verdict = Skipped(SkipNoNvcc)

C4_Witness ==
    /\ ~ToolchainFound
    /\ Done
    /\ env.srcExists
    /\ disk.bin = "stale"
    /\ env.stale.stdout = Marker
    /\ verdict.kind = "Skipped"

\* C5: when the harness source is absent the verdict is Skipped, no compile
\* and no run child process is started and the build directory is not created
C5_NoSourceNoCompile ==
    ~env.srcExists
        => /\ Count(steps, "compile") = 0 /\ compileResult = None
           /\ Count(steps, "execute") = 0 /\ runResult = None
           /\ disk = diskAtStart
           /\ Done => verdict.kind = "Skipped"

C5_Witness ==
    /\ ~env.srcExists
    /\ ToolchainFound
    /\ Done
    /\ ~disk.dir
    /\ verdict = Skipped(SkipNoSource)

\* C6: the verdict is Passed exactly when the toolchain was found, the source
\* is present, compile and run returned 0 and the output lacks the marker
C6_PassedIffCleanRun ==
    Done => ((verdict.kind = "Passed")
                <=> (SuccessfulRun /\ ~StrContains(Marker, runResult.stdout)))

C6_Witness ==
    /\ SuccessfulRun
    /\ verdict.kind = "Passed"
    /\ Len(runResult.stdout) = 3
    /\ runResult.stdout[2] = "Index collisions"
    /\ runResult.stdout[1] = " detected"

\* C7: every evaluation ends in exactly one of Skipped, Failed, Passed; no
\* exception other than skip and fail leaves the test, and before the end the
\* test has a next step
C7_AlwaysAVerdict ==
    /\ pc \in {"find", "source", "compile", "run", "classify", "done"}
    /\ Done => verdict.kind \in {"Skipped", "Failed", "Passed"}
    /\ ~Done => (verdict = None /\ ENABLED Next)
    /\ \A i \in 1..Len(history) : history[i] \in {"Skipped", "Failed", "Passed"}

C7_Witness ==
    /\ Done
    /\ compileResult # None
    /\ compileResult.returncode = 0
    /\ runResult # None
    /\ runResult.returncode = -9
    /\ verdict.kind = "Skipped"

\* C8: evaluations in succession in an unchanged environment all yield the
\* verdict class of the first one
C8_Idempotent ==
    \A i \in 1..Len(history) : history[i] = history[1]

C8_Witness ==
    /\ Len(history) >= 2
    /\ ~env.disk0.dir
    /\ diskAtStart = [dir |-> TRUE, bin |-> "fresh"]
    /\ history[2] = "Failed"

\* C9: the lookup returns the path of "nvcc" when it resolves, else the path
\* of "nvcc.exe" when that resolves, None exactly when neither does, and it
\* changes nothing on disk
C9_FirstMatch ==
    Count(steps, "discovery") > 0
        => /\ which("nvcc") # None => nvcc = [kind |-> "Path", s |-> which("nvcc").s]
           /\ (which("nvcc") = None /\ which("nvcc.exe") # None)
                 => nvcc = [kind |-> "Path", s |-> which("nvcc.exe").s]
           /\ (nvcc = None) <=> ~ToolchainFound
           /\ steps = <<"discovery">> => disk = diskAtStart

C9_Witness ==
    /\ steps = <<"discovery">>
    /\ which("nvcc") # None
    /\ which("nvcc.exe") # None
    /\ nvcc.s = NvccPath

\* C10 as stated: in one evaluation the lookup, the compile child process and
\* the run child process each run exactly once
C10_EachStepExactlyOnce ==
    Done => /\ Count(steps, "discovery") = 1
            /\ Count(steps, "compile") = 1
            /\ Count(steps, "execute") = 1

\* C10 amended: in one evaluation the steps taken are an initial part of
\* discovery, compile, execute, classify: none runs twice, none goes back; the
\* lookup runs exactly once, and compile and run run exactly once in every
\* evaluation that is not skipped before reaching them
C10_NoRetries ==
    /\ IsPrefix(steps, Pipeline)
    /\ pc # "find" => Count(steps, "discovery") = 1
    /\ pc \in {"run", "classify"} => Count(steps, "compile") = 1
    /\ pc = "classify" => Count(steps, "execute") = 1
    /\ (Done /\ verdict.kind \in {"Passed", "Failed"}) => steps = Pipeline
    /\ Done => (Count(steps, "compile") = 1
                  <=> (ToolchainFound /\ env.srcExists))
    /\ Done => (Count(steps, "execute") = 1
                  <=> (compileResult # None /\ compileResult.returncode = 0))

C10_Witness ==
    /\ Done
    /\ steps = Pipeline
    /\ Len(history) = 2

====
